---- MODULE Spec2Model ----
(***************************************************************************)
(* Model of the keysight_b1530a response handling: the WGFMUError          *)
(* exception, the check_error and strip_error_code decorators, their       *)
(* composition handle_wgfmu_response, and the binding functions built on   *)
(* them.  A call is executed on an explicit call stack: invoking a         *)
(* decorated function pushes one frame per decorator wrapper and one for   *)
(* the function body; a frame that finishes leaves its outcome (a returned *)
(* value or a raised exception) in ret for the frame below it.             *)
(***************************************************************************)
EXTENDS Integers, Sequences, FiniteSets, TLC

\* Most payload elements that follow the status code in a raw result tuple.
MaxPayload == 2
\* Largest measurement data size the size query reports.
MaxPoints == 2
\* Longest time_steps / voltages list handed to add_vectors.
MaxVecLen == 3

-----------------------------------------------------------------------------
(* Python values.  Every value has the same four fields: its type t, its   *)
(* number n, its text s and its elements e.                                *)

PyVal(t, n, s, e) == [t |-> t, n |-> n, s |-> s, e |-> e]
PyInt(n) == PyVal("int", n, "", <<>>)
PyBool(b) == PyVal("bool", IF b THEN 1 ELSE 0, "", <<>>)
PyFloat(n) == PyVal("float", n, "", <<>>)
PyStr(s) == PyVal("str", 0, s, <<>>)
PyNone == PyVal("NoneType", 0, "", <<>>)
PyList(e) == PyVal("list", 0, "", e)
PyTuple(e) == PyVal("tuple", 0, "", e)
PyArray(e) == PyVal("ndarray", 0, "", e)

\* isinstance(v, int): bool is a subclass of int.
IsInt(v) == v.t \in {"int", "bool"}
\* isinstance(v, tuple)
IsTuple(v) == v.t = "tuple"

(* The outcome of a call: a returned value or a raised exception.  NoRet    *)
(* stands for a call still in progress.                                    *)
Ret(v) ==
    [kind |-> "return", val |-> v, exc |-> "", code |-> 0,
     error_enum |-> PyNone, message |-> "", text |-> ""]
Raise(exc, text) ==
    [kind |-> "raise", val |-> PyNone, exc |-> exc, code |-> 0,
     error_enum |-> PyNone, message |-> "", text |-> text]
NoRet ==
    [kind |-> "none", val |-> PyNone, exc |-> "", code |-> 0,
     error_enum |-> PyNone, message |-> "", text |-> ""]

-----------------------------------------------------------------------------
(* errors.py                                                               *)

ERROR_CODE_MIN == -9999

\* The values of the members of WGFMUErrorCode.
WGFMUErrorCode == (-15 .. 0) \cup {ERROR_CODE_MIN}

\* The values of the members of WGFMUStatusCode.
WGFMUStatusCode == 10000 .. 10006

\* The keys of ERROR_MESSAGES.
ERROR_MESSAGES_keys == -15 .. 0

ERROR_MESSAGES(c) ==
    CASE c = 0 -> "No error."
      [] c = -1 -> "Invalid parameter value was found. It will be out of the range. Set the effective parameter value."
      [] c = -2 -> "Invalid string value was found. It will be empty or illegal (pointer). Set the effective string value."
      [] c = -3 -> "Context error was found between relative functions. Set the effective parameter value."
      [] c = -4 -> "Specified function is not supported by this channel. Set the channel id properly."
      [] c = -5 -> "IO library error was found."
      [] c = -6 -> "Firmware error was found."
      [] c = -7 -> "WGFMU instrument library error was found."
      [] c = -8 -> "Unidentified error was found."
      [] c = -9 -> "Specified channel id is not available for WGFMU. Set the channel id properly."
      [] c = -10 -> "Unexpected pattern name was specified. Specify the effective pattern name. Or create a new pattern."
      [] c = -11 -> "Unexpected event name was specified. Specify the effective event name."
      [] c = -12 -> "Duplicate pattern name was specified. Specify the unique pattern name."
      [] c = -13 -> "Sequencer must be run to execute the specified function. Run the sequencer."
      [] c = -14 -> "Measurement is in progress. Read the result data after the measurement is completed."
      [] c = -15 -> "Measurement result data was deleted by the setup change. The result data must be read before changing the waveform setup or the measurement setup."

VARIABLES
    table    \* ERROR_MESSAGES, the module-level dictionary: code -> message

\* f"Unknown error code: {code}"
UnknownMessage(code) == "Unknown error code: " \o ToString(code)

\* ERROR_MESSAGES.get(error_enum, f"Unknown error code: {code}")
ERROR_MESSAGES_get(error_enum, default) ==
    IF error_enum \in DOMAIN table THEN table[error_enum] ELSE default

(* A plausible slip: the conversion WGFMUErrorCode(code) is not guarded, so *)
(* a code that is no member of the enumeration ends in ValueError.          *)
WGFMUError_unguarded(code) ==
    IF code \in WGFMUErrorCode
    THEN [kind |-> "raise", val |-> PyNone, exc |-> "WGFMUError", code |-> code,
          error_enum |-> PyInt(code),
          message |-> ERROR_MESSAGES_get(code, UnknownMessage(code)),
          text |-> "WGFMU Error " \o ToString(code) \o ": "
                      \o ERROR_MESSAGES_get(code, UnknownMessage(code))]
    ELSE Raise("ValueError", ToString(code) \o " is not a valid WGFMUErrorCode")

(* A plausible slip: the table is read with the magnitude of the code, as   *)
(* the tests' comments word it ("Error code -1 maps to enum 1").            *)
WGFMUError_magnitude(code) ==
    LET message == ERROR_MESSAGES_get(-code, UnknownMessage(code))
    IN  [kind |-> "raise", val |-> PyNone, exc |-> "WGFMUError", code |-> code,
         error_enum |-> PyNone, message |-> message,
         text |-> "WGFMU Error " \o ToString(code) \o ": " \o message]

(* WGFMUError(code): the exception object, raised.  The enumeration lookup *)
(* fails with ValueError for a code that is no member, which __init__      *)
(* catches.                                                                *)
WGFMUError(code) ==
    LET member == code \in WGFMUErrorCode
        error_enum == IF member THEN PyInt(code) ELSE PyNone
        message == IF member
                   THEN ERROR_MESSAGES_get(code, UnknownMessage(code))
                   ELSE UnknownMessage(code)
    IN  [kind |-> "raise", val |-> PyNone, exc |-> "WGFMUError", code |-> code,
         error_enum |-> error_enum, message |-> message,
         text |-> "WGFMU Error " \o ToString(code) \o ": " \o message]

\* result[0] of a tuple: IndexError on the empty tuple.
HasFirst(result) == Len(result.e) > 0
IndexError == Raise("IndexError", "tuple index out of range")

(* Plausible slips of check_error's wrapper.                               *)
check_error_wrapper_bare_only(r) ==
    IF r.kind # "return" THEN r
    ELSE IF IsInt(r.val) /\ r.val.n < 0 THEN WGFMUError(r.val.n)
    ELSE r
check_error_wrapper_nonzero(r) ==
    IF r.kind # "return" THEN r
    ELSE IF IsInt(r.val) /\ r.val.n # 0 THEN WGFMUError(r.val.n)
    ELSE IF IsTuple(r.val) THEN
        IF ~HasFirst(r.val) THEN IndexError
        ELSE IF IsInt(r.val.e[1]) /\ r.val.e[1].n # 0 THEN WGFMUError(r.val.e[1].n)
        ELSE r
    ELSE r
check_error_wrapper_consuming(r) ==
    IF r.kind # "return" THEN r
    ELSE IF IsInt(r.val) /\ r.val.n < 0 THEN WGFMUError(r.val.n)
    ELSE IF IsTuple(r.val) THEN
        IF ~HasFirst(r.val) THEN IndexError
        ELSE IF IsInt(r.val.e[1]) /\ r.val.e[1].n < 0 THEN WGFMUError(r.val.e[1].n)
        ELSE IF IsInt(r.val.e[1]) THEN Ret(PyTuple(SubSeq(r.val.e, 2, Len(r.val.e))))
        ELSE r
    ELSE r

(* check_error's wrapper, applied to the outcome r of the wrapped call: an *)
(* exception of the wrapped call propagates.                               *)
check_error_wrapper(r) ==
    IF r.kind # "return" THEN r
    ELSE IF IsInt(r.val) /\ r.val.n < 0 THEN WGFMUError(r.val.n)
    ELSE IF IsTuple(r.val) THEN
        IF ~HasFirst(r.val) THEN IndexError
        ELSE IF IsInt(r.val.e[1]) /\ r.val.e[1].n < 0 THEN WGFMUError(r.val.e[1].n)
        ELSE r
    ELSE r

-----------------------------------------------------------------------------
(* utils.py                                                                *)

\* result[1:]
Remaining(result) == SubSeq(result.e, 2, Len(result.e))

(* Plausible slips of strip_error_code's wrapper.                          *)
strip_error_code_wrapper_zero_only(r) ==
    IF r.kind # "return" THEN r
    ELSE IF IsInt(r.val) THEN (IF r.val.n = 0 THEN Ret(PyNone) ELSE r)
    ELSE IF IsTuple(r.val) THEN
        IF ~HasFirst(r.val) THEN IndexError
        ELSE IF IsInt(r.val.e[1]) THEN
            IF Len(Remaining(r.val)) = 1 THEN Ret(Remaining(r.val)[1])
            ELSE Ret(PyTuple(Remaining(r.val)))
        ELSE r
    ELSE r
strip_error_code_wrapper_always_tuple(r) ==
    IF r.kind # "return" THEN r
    ELSE IF IsInt(r.val) THEN Ret(PyNone)
    ELSE IF IsTuple(r.val) THEN
        IF ~HasFirst(r.val) THEN IndexError
        ELSE IF IsInt(r.val.e[1]) THEN Ret(PyTuple(Remaining(r.val)))
        ELSE r
    ELSE r
strip_error_code_wrapper_empty_none(r) ==
    IF r.kind # "return" THEN r
    ELSE IF IsInt(r.val) THEN Ret(PyNone)
    ELSE IF IsTuple(r.val) THEN
        IF ~HasFirst(r.val) THEN IndexError
        ELSE IF IsInt(r.val.e[1]) THEN
            IF Len(Remaining(r.val)) = 0 THEN Ret(PyNone)
            ELSE IF Len(Remaining(r.val)) = 1 THEN Ret(Remaining(r.val)[1])
            ELSE Ret(PyTuple(Remaining(r.val)))
        ELSE r
    ELSE r

(* strip_error_code's wrapper, applied to the outcome r of the wrapped     *)
(* call.                                                                   *)
strip_error_code_wrapper(r) ==
    IF r.kind # "return" THEN r
    ELSE IF IsInt(r.val) THEN Ret(PyNone)
    ELSE IF IsTuple(r.val) THEN
        IF ~HasFirst(r.val) THEN IndexError
        ELSE IF IsInt(r.val.e[1]) THEN
            IF Len(Remaining(r.val)) = 1 THEN Ret(Remaining(r.val)[1])
            ELSE Ret(PyTuple(Remaining(r.val)))
        ELSE r
    ELSE r

(* The decorators of a function, outermost first.  handle_wgfmu_response   *)
(* is strip_error_code(check_error(func)).                                 *)
handle_wgfmu_response_swapped == <<"check_error", "strip_error_code">>
handle_wgfmu_response == <<"strip_error_code", "check_error">>

-----------------------------------------------------------------------------
(* The functions and the inputs of the model.                              *)

(* A plausible slip: open_session decorated like the other bindings.       *)
Decorators_open_checked(f) ==
    CASE f = "faulty_function" -> <<"check_error">>
      [] f = "twice_checked_function" -> <<"check_error", "check_error">>
      [] f = "get_error_summary" -> <<"strip_error_code">>
      [] OTHER -> handle_wgfmu_response

Decorators(f) ==
    CASE f = "faulty_function" -> <<"check_error">>
      [] f = "twice_checked_function" -> <<"check_error", "check_error">>
      [] f \in {"open_session", "get_error_summary"} -> <<"strip_error_code">>
      [] OTHER -> handle_wgfmu_response

\* Calling a decorated function enters its wrappers, then its body.
Call(f) == Decorators(f) \o <<f>>

\* Status codes the functions under test return.
StatusValues == (-16 .. 1) \cup {-999, ERROR_CODE_MIN} \cup WGFMUStatusCode

\* Status codes the library's functions return.
LibStatus == {-14, -1, 0, 10002}

Payloads ==
    {PyInt(1), PyInt(2), PyStr("data"), PyStr("x"), PyNone,
     PyList(<<PyInt(1), PyInt(2)>>)}

PayloadSeqs == UNION {[1 .. k -> Payloads] : k \in 0 .. MaxPayload}

\* Results of the two shapes the decorators expect.
ShapedResults ==
    {PyInt(c) : c \in StatusValues}
        \cup {PyTuple(<<PyInt(c)>> \o p) : c \in StatusValues, p \in PayloadSeqs}

\* Other results a decorated function may return.
OtherResults ==
    {PyBool(TRUE), PyBool(FALSE), PyStr("data"), PyNone, PyFloat(-1),
     PyList(<<PyInt(1), PyInt(2)>>), PyTuple(<<>>),
     PyTuple(<<PyStr("x"), PyInt(1)>>), PyTuple(<<PyNone>>),
     PyTuple(<<PyFloat(-1), PyInt(1)>>), PyTuple(<<PyBool(TRUE), PyInt(1)>>)}

RawResults == ShapedResults \cup OtherResults

FloatLists == UNION {[1 .. k -> {PyFloat(1)}] : k \in 0 .. MaxVecLen}

\* Measured sizes, times and values the library reports.
Sizes == 0 .. MaxPoints
Times == {1, 2}
Values == {3, 4}
\* The (time, value) pairs a point read reports.
Samples == {<<1, 3>>, <<2, 4>>}
SummarySizes == {-1, 0, 1}
SummaryTexts == {"-3: context error", "-10: pattern not found"}

StatusOnlyOps ==
    {"open_session", "close_session", "initialize", "clear", "self_test",
     "set_operation_mode", "execute", "wait_until_completed", "connect",
     "set_measure_mode", "set_measure_current_range", "create_pattern",
     "add_vector", "add_sequence", "set_measure_event",
     "export_measurement_setup"}

\* The functions a caller invokes.
Operations ==
    StatusOnlyOps \cup
        {"faulty_function", "successful_function", "twice_checked_function",
         "add_vectors", "get_measurement_data", "get_voltage_value",
         "get_voltage_data", "get_error_summary"}

\* The arguments the model distinguishes.
Args(f) ==
    CASE f \in {"faulty_function", "successful_function", "twice_checked_function"}
            -> RawResults
      [] f = "add_vectors" ->
            {PyTuple(<<PyList(ts), PyList(vs)>>) : ts \in FloatLists, vs \in FloatLists}
      [] OTHER -> {PyNone}

-----------------------------------------------------------------------------
VARIABLES
    stack,   \* the call stack: wrapper and body frames, innermost last
    ret,     \* the outcome the frame that just finished hands down
    op,      \* the function the caller invoked
    arg,     \* its arguments (for the test functions: the result they return)
    flog,    \* the foreign calls of this invocation, in order
    wlog,    \* the wrapper applications of this invocation, in order
    blog,    \* the function bodies entered in this invocation, with their arguments
    gmd,     \* locals of get_measurement_data
    ges,     \* locals of get_error_summary
    gvd,     \* locals of get_voltage_data
    prev     \* how the caller's previous call ended: "none", "return" or "raise"

vars == <<table, stack, ret, op, arg, flog, wlog, blog, gmd, ges, gvd, prev>>

Unbound == PyVal("unbound", 0, "", <<>>)

gmdInit ==
    [pc |-> "start", num_points |-> 0, i |-> 0, times |-> <<>>, values |-> <<>>,
     error_code |-> Unbound]
gesInit == [pc |-> "start", error_code |-> Unbound, size |-> 0]
gvdInit == [pc |-> "start", times |-> <<>>, k |-> 0, time |-> 0, voltages |-> <<>>]

\* The arguments a body is entered with: the caller's, or those of a nested call.
BodyArgs(f) ==
    IF f = op THEN arg
    ELSE IF f = "get_voltage_value" THEN PyFloat(gvd.time)
    ELSE PyNone

\* A frame enters the body of f.
Enter(f) == blog' = Append(blog, [fn |-> f, args |-> BodyArgs(f)])

Top == stack[Len(stack)]
Pop == SubSeq(stack, 1, Len(stack) - 1)
Running(f) == Len(stack) > 0 /\ Top = f
Done == stack = <<>> /\ ret.kind # "none"

(* A foreign call: the function, the argument after the channel (an index  *)
(* or a time, -1 without one), the status code returned and the values    *)
(* written through the out pointers.                                       *)
ForeignOut(fn, idx, rc, out) == [fn |-> fn, idx |-> idx, rc |-> rc, out |-> out]
Foreign(fn, idx, rc) == ForeignOut(fn, idx, rc, <<>>)

Init ==
    /\ table = [c \in ERROR_MESSAGES_keys |-> ERROR_MESSAGES(c)]
    /\ prev = "none"
    /\ blog = <<>>
    /\ gvd = gvdInit
    /\ stack = <<>>
    /\ ret = NoRet
    /\ op = ""
    /\ arg = PyNone
    /\ flog = <<>>
    /\ wlog = <<>>
    /\ gmd = gmdInit
    /\ ges = gesInit

\* The caller invokes one of the functions fs.
InvokeOneOf(fs) ==
    /\ stack = <<>>
    /\ ret.kind = "none"
    /\ \E f \in fs : \E a \in Args(f) :
        /\ op' = f
        /\ arg' = a
        /\ stack' = Call(f)
    /\ ret' = NoRet
    /\ flog' = <<>>
    /\ wlog' = <<>>
    /\ blog' = <<>>
    /\ gmd' = gmdInit
    /\ ges' = gesInit
    /\ gvd' = gvdInit
    /\ UNCHANGED <<table, prev>>

Invoke == InvokeOneOf(Operations)

(* The caller takes the outcome of the call; nothing of the call is kept.  *)
(* p is what the caller remembers of how the call ended.                   *)
ReceiveAs(p) ==
    /\ Done
    /\ stack' = <<>>
    /\ ret' = NoRet
    /\ op' = ""
    /\ arg' = PyNone
    /\ flog' = <<>>
    /\ wlog' = <<>>
    /\ blog' = <<>>
    /\ gmd' = gmdInit
    /\ ges' = gesInit
    /\ gvd' = gvdInit
    /\ prev' = p
    /\ table' = table

Receive == ReceiveAs("none")

(* A plausible slip: check_error keeps the last error and raises again on  *)
(* the call after one that raised.                                         *)
check_error_sticky ==
    /\ Running("check_error")
    /\ ret.kind # "none"
    /\ ret' = IF prev = "raise" /\ ret.kind = "return"
              THEN WGFMUError(-8)
              ELSE check_error_wrapper(ret)
    /\ wlog' = Append(wlog, [dec |-> "check_error", inp |-> ret, out |-> ret'])
    /\ stack' = Pop
    /\ UNCHANGED <<blog, table, prev, gvd, op, arg, flog, gmd, ges>>

(* A plausible slip: check_error calls the function a second time when    *)
(* its first result is a negative status code.                             *)
check_error_retry ==
    /\ Running("check_error")
    /\ ret.kind # "none"
    /\ IF stack = <<"check_error">> /\ ret.kind = "return" /\ IsInt(ret.val)
            /\ ret.val.n < 0 /\ Len(blog) < 2
       THEN /\ stack' = stack \o <<op>>
            /\ ret' = NoRet
            /\ wlog' = wlog
       ELSE /\ ret' = check_error_wrapper(ret)
            /\ wlog' = Append(wlog, [dec |-> "check_error", inp |-> ret, out |-> ret'])
            /\ stack' = Pop
    /\ UNCHANGED <<blog, table, prev, gvd, op, arg, flog, gmd, ges>>

\* A wrapper of check_error resumes with the outcome of the call it made.
check_error ==
    /\ Running("check_error")
    /\ ret.kind # "none"
    /\ ret' = check_error_wrapper(ret)
    /\ wlog' = Append(wlog, [dec |-> "check_error", inp |-> ret, out |-> ret'])
    /\ stack' = Pop
    /\ UNCHANGED <<blog, table, prev, gvd, op, arg, flog, gmd, ges>>

\* A wrapper of strip_error_code resumes with the outcome of the call it made.
strip_error_code ==
    /\ Running("strip_error_code")
    /\ ret.kind # "none"
    /\ ret' = strip_error_code_wrapper(ret)
    /\ wlog' = Append(wlog, [dec |-> "strip_error_code", inp |-> ret, out |-> ret'])
    /\ stack' = Pop
    /\ UNCHANGED <<blog, table, prev, gvd, op, arg, flog, gmd, ges>>

\* The test functions return the value they close over.
faulty_function ==
    /\ Running("faulty_function")
    /\ ret' = Ret(arg)
    /\ stack' = Pop
    /\ Enter("faulty_function")
    /\ UNCHANGED <<table, prev, gvd, op, arg, flog, wlog, gmd, ges>>

successful_function ==
    /\ Running("successful_function")
    /\ ret' = Ret(arg)
    /\ stack' = Pop
    /\ Enter("successful_function")
    /\ UNCHANGED <<table, prev, gvd, op, arg, flog, wlog, gmd, ges>>

\* A function returning the value it closes over, decorated with check_error twice.
twice_checked_function ==
    /\ Running("twice_checked_function")
    /\ ret' = Ret(arg)
    /\ stack' = Pop
    /\ Enter("twice_checked_function")
    /\ UNCHANGED <<table, prev, gvd, op, arg, flog, wlog, gmd, ges>>

(* A binding whose body is one foreign call returning the status code.     *)
StatusOnlyBinding(f, fn) ==
    /\ Running(f)
    /\ \E rc \in LibStatus :
        /\ flog' = Append(flog, Foreign(fn, -1, rc))
        /\ ret' = Ret(PyInt(rc))
    /\ stack' = Pop
    /\ Enter(f)
    /\ UNCHANGED <<table, prev, gvd, op, arg, wlog, gmd, ges>>

open_session == StatusOnlyBinding("open_session", "WGFMU_openSession")
close_session == StatusOnlyBinding("close_session", "WGFMU_closeSession")
initialize == StatusOnlyBinding("initialize", "WGFMU_initialize")
clear == StatusOnlyBinding("clear", "WGFMU_clear")
self_test == StatusOnlyBinding("self_test", "WGFMU_doSelfTest")
set_operation_mode == StatusOnlyBinding("set_operation_mode", "WGFMU_setOperationMode")
execute == StatusOnlyBinding("execute", "WGFMU_execute")
wait_until_completed == StatusOnlyBinding("wait_until_completed", "WGFMU_waitUntilCompleted")
connect == StatusOnlyBinding("connect", "WGFMU_connect")
set_measure_mode == StatusOnlyBinding("set_measure_mode", "WGFMU_setMeasureMode")
set_measure_current_range ==
    StatusOnlyBinding("set_measure_current_range", "WGFMU_setMeasureCurrentRange")
create_pattern == StatusOnlyBinding("create_pattern", "WGFMU_createPattern")
add_vector == StatusOnlyBinding("add_vector", "WGFMU_addVector")
add_sequence == StatusOnlyBinding("add_sequence", "WGFMU_addSequence")
set_measure_event == StatusOnlyBinding("set_measure_event", "WGFMU_setMeasureEvent")
export_measurement_setup ==
    StatusOnlyBinding("export_measurement_setup", "WGFMU_exportAscii")

(* add_vectors: the lengths are compared before the foreign call.          *)
add_vectors_unchecked ==
    /\ Running("add_vectors")
    /\ \E rc \in LibStatus :
        /\ flog' = Append(flog, Foreign("WGFMU_addVectors", -1, rc))
        /\ ret' = Ret(PyInt(rc))
    /\ stack' = Pop
    /\ Enter("add_vectors")
    /\ UNCHANGED <<table, prev, gvd, op, arg, wlog, gmd, ges>>

add_vectors ==
    /\ Running("add_vectors")
    /\ LET time_steps == arg.e[1].e
           voltages == arg.e[2].e
       IN  IF Len(time_steps) # Len(voltages)
           THEN /\ ret' = Raise("ValueError",
                                "time_steps and voltages must have the same length.")
                /\ flog' = flog
           ELSE \E rc \in LibStatus :
                /\ flog' = Append(flog, Foreign("WGFMU_addVectors", -1, rc))
                /\ ret' = Ret(PyInt(rc))
    /\ stack' = Pop
    /\ Enter("add_vectors")
    /\ UNCHANGED <<table, prev, gvd, op, arg, wlog, gmd, ges>>

(* _get_measurement_data_size: returns error_code, measured_size_ptr[0].   *)
get_measurement_data_size ==
    /\ Running("_get_measurement_data_size")
    /\ \E rc \in LibStatus : \E n \in Sizes :
        /\ flog' = Append(flog, ForeignOut("WGFMU_getMeasureValueSize", -1, rc, <<PyInt(n)>>))
        /\ ret' = Ret(PyTuple(<<PyInt(rc), PyInt(n)>>))
    /\ stack' = Pop
    /\ Enter("_get_measurement_data_size")
    /\ UNCHANGED <<table, prev, gvd, op, arg, wlog, gmd, ges>>

\* get_measurement_data calls the size query.
gmd_call_size ==
    /\ Running("get_measurement_data")
    /\ gmd.pc = "start"
    /\ stack' = stack \o Call("_get_measurement_data_size")
    /\ gmd' = [gmd EXCEPT !.pc = "size"]
    /\ Enter("get_measurement_data")
    /\ UNCHANGED <<ret, table, prev, gvd, op, arg, flog, wlog, ges>>

\* np.zeros(n)
Zeros(n) == [k \in 1 .. n |-> 0]

(* The size query is back: its exception propagates, or its value becomes  *)
(* num_points and the two arrays are allocated.                            *)
gmd_size_returned ==
    /\ Running("get_measurement_data")
    /\ gmd.pc = "size"
    /\ ret.kind # "none"
    /\ IF ret.kind = "raise"
       THEN /\ stack' = Pop
            /\ UNCHANGED <<ret, gmd>>
       ELSE /\ gmd' = [gmd EXCEPT !.pc = "loop", !.num_points = ret.val.n,
                                  !.times = Zeros(ret.val.n),
                                  !.values = Zeros(ret.val.n)]
            /\ ret' = NoRet
            /\ stack' = stack
    /\ UNCHANGED <<blog, table, prev, gvd, op, arg, flog, wlog, ges>>

\* One pass of the loop: the read of point i overwrites error_code.
gmd_read_point ==
    /\ Running("get_measurement_data")
    /\ gmd.pc = "loop"
    /\ gmd.i < gmd.num_points
    /\ \E rc \in LibStatus : \E smp \in Samples :
        /\ flog' = Append(flog, ForeignOut("WGFMU_getMeasureValue", gmd.i, rc,
                                        <<PyFloat(smp[1]), PyFloat(smp[2])>>))
        /\ gmd' = [gmd EXCEPT !.error_code = PyInt(rc),
                              !.times[gmd.i + 1] = smp[1],
                              !.values[gmd.i + 1] = smp[2],
                              !.i = gmd.i + 1]
    /\ UNCHANGED <<blog, stack, ret, table, prev, gvd, op, arg, wlog, ges>>

(* return error_code, np.array(times), np.array(values): error_code is     *)
(* unbound when the loop made no pass.                                     *)
gmd_return ==
    /\ Running("get_measurement_data")
    /\ gmd.pc = "loop"
    /\ gmd.i >= gmd.num_points
    /\ ret' = IF gmd.error_code = Unbound
              THEN Raise("UnboundLocalError",
                         "cannot access local variable 'error_code' where it is not associated with a value")
              ELSE Ret(PyTuple(<<gmd.error_code,
                                 PyArray([k \in 1 .. gmd.num_points |-> PyFloat(gmd.times[k])]),
                                 PyArray([k \in 1 .. gmd.num_points |-> PyFloat(gmd.values[k])])>>))
    /\ stack' = Pop
    /\ gmd' = [gmd EXCEPT !.pc = "done"]
    /\ UNCHANGED <<blog, table, prev, gvd, op, arg, flog, wlog, ges>>

(* get_voltage_value: returns error_code, value_ptr[0].                    *)
get_voltage_value ==
    /\ Running("get_voltage_value")
    /\ \E rc \in LibStatus : \E v \in Values :
        /\ flog' = Append(flog, ForeignOut("WGFMU_getInterpolatedForceValue", gvd.time, rc,
                                        <<PyFloat(v)>>))
        /\ ret' = Ret(PyTuple(<<PyInt(rc), PyFloat(v)>>))
    /\ stack' = Pop
    /\ Enter("get_voltage_value")
    /\ UNCHANGED <<table, prev, gvd, op, arg, wlog, gmd, ges>>

(* get_voltage_data: times, _ = get_measurement_data(channel), then one    *)
(* get_voltage_value(channel, time) per time, in order.                    *)
gvd_call_data ==
    /\ Running("get_voltage_data")
    /\ gvd.pc = "start"
    /\ stack' = stack \o Call("get_measurement_data")
    /\ gvd' = [gvd EXCEPT !.pc = "data"]
    /\ Enter("get_voltage_data")
    /\ UNCHANGED <<ret, table, prev, op, arg, flog, wlog, gmd, ges>>

\* get_measurement_data is back: its exception propagates, or times is bound.
gvd_data_returned ==
    /\ Running("get_voltage_data")
    /\ gvd.pc = "data"
    /\ ret.kind # "none"
    /\ IF ret.kind = "raise"
       THEN /\ stack' = Pop
            /\ UNCHANGED <<ret, gvd>>
       ELSE /\ gvd' = [gvd EXCEPT !.pc = "loop", !.times = ret.val.e[1].e]
            /\ ret' = NoRet
            /\ stack' = stack
    /\ UNCHANGED <<table, prev, op, arg, flog, wlog, blog, gmd, ges>>

\* The comprehension calls get_voltage_value for the next time.
gvd_call_value ==
    /\ Running("get_voltage_data")
    /\ gvd.pc = "loop"
    /\ gvd.k < Len(gvd.times)
    /\ stack' = stack \o Call("get_voltage_value")
    /\ gvd' = [gvd EXCEPT !.pc = "value", !.time = gvd.times[gvd.k + 1].n]
    /\ UNCHANGED <<ret, table, prev, op, arg, flog, wlog, blog, gmd, ges>>

(* A plausible slip: a failed read is skipped and the comprehension goes   *)
(* on with the next time.                                                  *)
gvd_value_returned_skipping ==
    /\ Running("get_voltage_data")
    /\ gvd.pc = "value"
    /\ ret.kind # "none"
    /\ IF ret.kind = "raise"
       THEN /\ gvd' = [gvd EXCEPT !.pc = "loop", !.k = gvd.k + 1]
            /\ ret' = NoRet
            /\ stack' = stack
       ELSE /\ gvd' = [gvd EXCEPT !.pc = "loop", !.k = gvd.k + 1,
                                  !.voltages = Append(gvd.voltages, ret.val)]
            /\ ret' = NoRet
            /\ stack' = stack
    /\ UNCHANGED <<table, prev, op, arg, flog, wlog, blog, gmd, ges>>

\* get_voltage_value is back: its exception ends the comprehension.
gvd_value_returned ==
    /\ Running("get_voltage_data")
    /\ gvd.pc = "value"
    /\ ret.kind # "none"
    /\ IF ret.kind = "raise"
       THEN /\ stack' = Pop
            /\ UNCHANGED <<ret, gvd>>
       ELSE /\ gvd' = [gvd EXCEPT !.pc = "loop", !.k = gvd.k + 1,
                                  !.voltages = Append(gvd.voltages, ret.val)]
            /\ ret' = NoRet
            /\ stack' = stack
    /\ UNCHANGED <<table, prev, op, arg, flog, wlog, blog, gmd, ges>>

\* return np.array(voltages)
gvd_return ==
    /\ Running("get_voltage_data")
    /\ gvd.pc = "loop"
    /\ gvd.k >= Len(gvd.times)
    /\ ret' = Ret(PyArray(gvd.voltages))
    /\ stack' = Pop
    /\ gvd' = [gvd EXCEPT !.pc = "done"]
    /\ UNCHANGED <<table, prev, op, arg, flog, wlog, blog, gmd, ges>>

(* A plausible slip of get_error_summary: the size test lets a size of     *)
(* zero through.                                                           *)
ges_size_nonnegative ==
    /\ Running("get_error_summary")
    /\ ges.pc = "start"
    /\ \E rc \in LibStatus : \E size \in SummarySizes :
        /\ flog' = Append(flog, ForeignOut("WGFMU_getErrorSummarySize", -1, rc, <<PyInt(size)>>))
        /\ IF size >= 0
           THEN /\ ges' = [pc |-> "read", error_code |-> PyInt(rc), size |-> size]
                /\ UNCHANGED <<stack, ret>>
           ELSE /\ ges' = [pc |-> "done", error_code |-> PyInt(rc), size |-> size]
                /\ ret' = Ret(PyTuple(<<PyInt(rc), PyStr("No errors found.")>>))
                /\ stack' = Pop
    /\ Enter("get_error_summary")
    /\ UNCHANGED <<table, prev, gvd, op, arg, wlog, gmd>>

(* get_error_summary: the size query, then for a positive size the read of *)
(* the summary, whose own status code is dropped.                          *)
ges_size ==
    /\ Running("get_error_summary")
    /\ ges.pc = "start"
    /\ \E rc \in LibStatus : \E size \in SummarySizes :
        /\ flog' = Append(flog, ForeignOut("WGFMU_getErrorSummarySize", -1, rc, <<PyInt(size)>>))
        /\ IF size > 0
           THEN /\ ges' = [pc |-> "read", error_code |-> PyInt(rc), size |-> size]
                /\ UNCHANGED <<stack, ret>>
           ELSE /\ ges' = [pc |-> "done", error_code |-> PyInt(rc), size |-> size]
                /\ ret' = Ret(PyTuple(<<PyInt(rc), PyStr("No errors found.")>>))
                /\ stack' = Pop
    /\ Enter("get_error_summary")
    /\ UNCHANGED <<table, prev, gvd, op, arg, wlog, gmd>>

ges_read ==
    /\ Running("get_error_summary")
    /\ ges.pc = "read"
    /\ \E rc \in LibStatus : \E text \in SummaryTexts :
        /\ flog' = Append(flog, ForeignOut("WGFMU_getErrorSummary", -1, rc, <<PyStr(text)>>))
        /\ ret' = Ret(PyTuple(<<ges.error_code, PyStr(text)>>))
    /\ ges' = [ges EXCEPT !.pc = "done"]
    /\ stack' = Pop
    /\ UNCHANGED <<blog, table, prev, gvd, op, arg, wlog, gmd>>

Next ==
    \/ Invoke
    \/ Receive
    \/ check_error
    \/ strip_error_code
    \/ faulty_function
    \/ successful_function
    \/ twice_checked_function
    \/ open_session
    \/ close_session
    \/ initialize
    \/ clear
    \/ self_test
    \/ set_operation_mode
    \/ execute
    \/ wait_until_completed
    \/ connect
    \/ set_measure_mode
    \/ set_measure_current_range
    \/ create_pattern
    \/ add_vector
    \/ add_sequence
    \/ set_measure_event
    \/ export_measurement_setup
    \/ add_vectors
    \/ get_measurement_data_size
    \/ gmd_call_size
    \/ gmd_size_returned
    \/ gmd_read_point
    \/ gmd_return
    \/ get_voltage_value
    \/ gvd_call_data
    \/ gvd_data_returned
    \/ gvd_call_value
    \/ gvd_value_returned
    \/ gvd_return
    \/ ges_size
    \/ ges_read

Spec == Init /\ [][Next]_vars

(* A caller making a sequence of calls of the functions that only return   *)
(* a value through the decorators, remembering how the last one ended.     *)
TestFunctions == {"faulty_function", "successful_function", "twice_checked_function"}

InvokeTest == InvokeOneOf(TestFunctions)

ReceiveRemember == ReceiveAs(ret.kind)

NextSeq ==
    \/ InvokeTest
    \/ ReceiveRemember
    \/ check_error
    \/ strip_error_code
    \/ faulty_function
    \/ successful_function
    \/ twice_checked_function

SpecSeq == Init /\ [][NextSeq]_vars

-----------------------------------------------------------------------------
(* Properties.                                                             *)

\* A result whose status code (bare, or first of a tuple) is a negative integer.
NegStatus(v) ==
    \/ v.t = "int" /\ v.n < 0
    \/ IsTuple(v) /\ Len(v.e) > 0 /\ v.e[1].t = "int" /\ v.e[1].n < 0

\* A result whose status code is an integer that is zero or positive.
NonNegStatus(v) ==
    \/ IsInt(v) /\ v.n >= 0
    \/ IsTuple(v) /\ Len(v.e) > 0 /\ IsInt(v.e[1]) /\ v.e[1].n >= 0

\* A result of neither shape.
NoShape(v) == ~IsInt(v) /\ ~(IsTuple(v) /\ Len(v.e) > 0 /\ IsInt(v.e[1]))

StatusOf(v) == IF IsTuple(v) THEN v.e[1].n ELSE v.n

\* The wrapper applications of one decorator that received a returned value.
Applied(dec) ==
    {k \in DOMAIN wlog : wlog[k].dec = dec /\ wlog[k].inp.kind = "return"}

IsWGFMUError(r, c) == r.kind = "raise" /\ r.exc = "WGFMUError" /\ r.code = c

(* C1: a result with a negative status code c, bare or leading a tuple,    *)
(* makes check_error raise WGFMUError carrying c; the wrapped function     *)
(* never returns a value then.                                             *)
C1_NegativeStatusRaises ==
    /\ \A k \in Applied("check_error") :
        NegStatus(wlog[k].inp.val)
            => IsWGFMUError(wlog[k].out, StatusOf(wlog[k].inp.val))
    /\ Done /\ op = "faulty_function" /\ NegStatus(arg)
            => IsWGFMUError(ret, StatusOf(arg))

C1_Witness ==
    /\ Done
    /\ op = "faulty_function"
    /\ arg = PyTuple(<<PyInt(-1), PyStr("x")>>)
    /\ IsWGFMUError(ret, -1)

\* The fallback messages of the codes outside the table, written out.
ExpectedUnknown(c) ==
    CASE c = -16 -> "Unknown error code: -16"
      [] c = -999 -> "Unknown error code: -999"
      [] c = -9999 -> "Unknown error code: -9999"

(* C2: a negative status code c without an entry in ERROR_MESSAGES (-9999, *)
(* an enumeration member, included) raises WGFMUError with code c and the  *)
(* message "Unknown error code: {c}"; building the error never fails.      *)
C2_UnknownCodeMessage ==
    Done /\ op \in {"faulty_function", "successful_function"} /\ NegStatus(arg)
         /\ StatusOf(arg) \notin -15 .. 0
        => /\ IsWGFMUError(ret, StatusOf(arg))
           /\ ret.message = ExpectedUnknown(StatusOf(arg))

C2_Witness ==
    /\ Done
    /\ op = "faulty_function"
    /\ arg = PyInt(-9999)
    /\ IsWGFMUError(ret, -9999)
    /\ ret.message = "Unknown error code: -9999"

(* C3: for a known code c in -15..-1 the raised error's message is the     *)
(* table entry of c and its string form is "WGFMU Error {c}: {message}".   *)
C3_KnownCodeMessage ==
    Done /\ op = "faulty_function" /\ NegStatus(arg) /\ StatusOf(arg) \in -15 .. -1
        => /\ IsWGFMUError(ret, StatusOf(arg))
           /\ ret.message = ERROR_MESSAGES(StatusOf(arg))
           /\ ret.text = "WGFMU Error " \o ToString(StatusOf(arg)) \o ": "
                            \o ERROR_MESSAGES(StatusOf(arg))
           /\ StatusOf(arg) = -5 => ret.text = "WGFMU Error -5: IO library error was found."

C3_Witness ==
    /\ Done
    /\ op = "faulty_function"
    /\ arg = PyInt(-15)
    /\ ret.text = "WGFMU Error -15: " \o ERROR_MESSAGES(-15)

(* C4: a result whose status code is zero or positive (the status codes    *)
(* 10000..10006 included) passes check_error unchanged; nothing is raised. *)
C4_NonNegativePassesThrough ==
    /\ \A k \in Applied("check_error") :
        NonNegStatus(wlog[k].inp.val) => wlog[k].out = wlog[k].inp
    /\ Done /\ op = "faulty_function" /\ NonNegStatus(arg) => ret = Ret(arg)

C4_Witness ==
    /\ Done
    /\ op = "faulty_function"
    /\ arg = PyTuple(<<PyInt(10002), PyStr("data")>>)
    /\ ret = Ret(arg)

\* The functions decorated with handle_wgfmu_response.
HandleOps ==
    Operations \ {"faulty_function", "twice_checked_function", "open_session",
                  "get_error_summary"}

(* C5: the outcome of a function decorated with handle_wgfmu_response is   *)
(* that of strip_error_code applied to what check_error made of the raw    *)
(* result: check_error runs first, so a negative status raises WGFMUError  *)
(* and is never unwrapped.                                                 *)
C5_ValidateThenUnwrap ==
    /\ Done /\ op \in HandleOps =>
        LET n == Len(wlog) IN
        /\ n >= 2
        /\ wlog[n - 1].dec = "check_error"
        /\ wlog[n].dec = "strip_error_code"
        /\ wlog[n].inp = wlog[n - 1].out
        /\ ret = strip_error_code_wrapper(check_error_wrapper(wlog[n - 1].inp))
        /\ wlog[n - 1].inp.kind = "return" /\ NegStatus(wlog[n - 1].inp.val)
            => IsWGFMUError(ret, StatusOf(wlog[n - 1].inp.val))
    /\ Done /\ op = "successful_function" =>
        /\ ret = strip_error_code_wrapper(check_error_wrapper(Ret(arg)))
        /\ NegStatus(arg) => IsWGFMUError(ret, StatusOf(arg))

C5_Witness ==
    /\ Done
    /\ op = "successful_function"
    /\ arg = PyTuple(<<PyInt(-1), PyStr("x")>>)
    /\ IsWGFMUError(ret, -1)

(* C6: a bare integer that passed check_error (zero or positive) is        *)
(* unwrapped to None, the same for 0 and for a positive status code.       *)
C6_BareIntegerToNone ==
    /\ \A k \in Applied("strip_error_code") :
        IsInt(wlog[k].inp.val) /\ wlog[k].inp.val.n >= 0
            => wlog[k].out = Ret(PyNone)
    /\ Done /\ op = "successful_function" /\ IsInt(arg) /\ arg.n >= 0
            => ret = Ret(PyNone)

C6_Witness ==
    /\ Done
    /\ op = "successful_function"
    /\ arg = PyInt(10002)
    /\ ret = Ret(PyNone)

(* C7: a checked tuple (s, p1, ..., pn) with integer status s is unwrapped *)
(* to p1 itself when n = 1 and to the tuple (p1, ..., pn), in order, when  *)
(* n > 1; the status is dropped.                                           *)
C7_TupleUnwrapped ==
    \A k \in Applied("strip_error_code") :
        LET v == wlog[k].inp.val
            out == wlog[k].out
        IN  IsTuple(v) /\ Len(v.e) > 1 /\ IsInt(v.e[1]) /\ v.e[1].n >= 0 =>
            /\ out.kind = "return"
            /\ Len(v.e) = 2 => out.val = v.e[2]
            /\ Len(v.e) > 2 =>
                /\ out.val.t = "tuple"
                /\ Len(out.val.e) = Len(v.e) - 1
                /\ \A j \in 1 .. Len(v.e) - 1 : out.val.e[j] = v.e[j + 1]

C7_Witness ==
    /\ Done
    /\ op = "successful_function"
    /\ arg = PyTuple(<<PyInt(0), PyList(<<PyInt(1), PyInt(2)>>)>>)
    /\ ret = Ret(PyList(<<PyInt(1), PyInt(2)>>))

(* C8: a result that is neither an integer nor a tuple led by an integer   *)
(* (the empty tuple included) passes both wrappers unchanged; nothing is   *)
(* raised.                                                                 *)
C8_NoShapeUnchanged ==
    \A k \in DOMAIN wlog :
        wlog[k].inp.kind = "return" /\ NoShape(wlog[k].inp.val)
            => wlog[k].out = wlog[k].inp

(* C9: add_vectors with lists of different lengths ends in ValueError at   *)
(* the caller and makes no foreign call.                                   *)
C9_LengthMismatchIsLocal ==
    op = "add_vectors" /\ Len(arg.e[1].e) # Len(arg.e[2].e) =>
        /\ flog = <<>>
        /\ Done => ret.kind = "raise" /\ ret.exc = "ValueError"

C9_Witness ==
    /\ Done
    /\ op = "add_vectors"
    /\ Len(arg.e[1].e) = 3
    /\ Len(arg.e[2].e) = 2
    /\ ret.exc = "ValueError"
    /\ Len(wlog) = 2

\* The instrument operations.
Catalog ==
    Operations \ {"faulty_function", "successful_function", "twice_checked_function"}

(* C10: whenever a foreign call of an instrument operation returned a      *)
(* negative status code, the operation ends raising WGFMUError with a      *)
(* non-empty message.                                                      *)
C10_NoErrorSwallowed ==
    Done /\ op \in Catalog /\ (\E k \in DOMAIN flog : flog[k].rc < 0)
        => ret.kind = "raise" /\ ret.exc = "WGFMUError" /\ ret.message # ""


\* The times the body of the invoked function was entered in this invocation.
Entries == {k \in DOMAIN blog : blog[k].fn = op}

(* C11: one invocation of a decorated function enters the function's body  *)
(* exactly once, with the caller's arguments, whatever the result; there   *)
(* is no second attempt after a negative status code.                      *)
C11_NoRetry ==
    /\ Cardinality(Entries) <= 1
    /\ \A k \in Entries : blog[k].args = arg
    /\ Done => Cardinality(Entries) = 1

C11_Witness ==
    /\ Done
    /\ op = "faulty_function"
    /\ arg = PyInt(-1)
    /\ IsWGFMUError(ret, -1)
    /\ blog = <<[fn |-> "faulty_function", args |-> PyInt(-1)]>>


\* What the decorators of f make of the raw result v, by themselves.
OutcomeOf(f, v) ==
    CASE f = "faulty_function" -> check_error_wrapper(Ret(v))
      [] f = "twice_checked_function" ->
            check_error_wrapper(check_error_wrapper(Ret(v)))
      [] f = "successful_function" ->
            strip_error_code_wrapper(check_error_wrapper(Ret(v)))

(* C12: the decorators keep no state: in a sequence of calls, after a call *)
(* that returned as after one that raised, the outcome of a call is        *)
(* decided by its own raw result alone, and ERROR_MESSAGES is never        *)
(* modified.                                                               *)
C12_Stateless ==
    /\ table = [c \in ERROR_MESSAGES_keys |-> ERROR_MESSAGES(c)]
    /\ Done /\ op \in TestFunctions => ret = OutcomeOf(op, arg)

C12_Witness ==
    /\ Done
    /\ prev = "raise"
    /\ op = "successful_function"
    /\ arg = PyTuple(<<PyInt(0), PyStr("data")>>)
    /\ ret = Ret(PyStr("data"))


\* get_measurement_data ended after n point reads, in index order after the
\* size query, with the pair of arrays those reads reported.
ReturnsMeasuredArrays(n) ==
    /\ Len(flog) = n + 1
    /\ flog[1].fn = "WGFMU_getMeasureValueSize"
    /\ \A i \in 1 .. n :
        flog[i + 1].fn = "WGFMU_getMeasureValue" /\ flog[i + 1].idx = i - 1
    /\ ret.kind = "return"
    /\ ret.val = PyTuple(<<PyArray([i \in 1 .. n |-> flog[i + 1].out[1]]),
                           PyArray([i \in 1 .. n |-> flog[i + 1].out[2]])>>)

(* C13: for every size n >= 0 the size query reports (0 included), when    *)
(* every foreign call succeeds get_measurement_data returns the pair       *)
(* (times, values) of two arrays of length n holding the outputs of the    *)
(* point reads 0..n-1, read in that order after the size query.            *)
C13_ParallelArrays ==
    Done /\ op = "get_measurement_data" /\ (\A k \in DOMAIN flog : flog[k].rc >= 0)
        => ReturnsMeasuredArrays(flog[1].out[1].n)


(* C14: open_session never raises WGFMUError: whatever status code the     *)
(* foreign open call returns (zero, positive or negative), it returns      *)
(* None, being decorated with strip_error_code only.                       *)
C14_OpenSessionNeverRaises ==
    Done /\ op = "open_session" =>
        /\ Len(flog) = 1
        /\ flog[1].fn = "WGFMU_openSession"
        /\ ret = Ret(PyNone)
        /\ \A k \in DOMAIN wlog : wlog[k].dec = "strip_error_code"

C14_Witness ==
    /\ Done
    /\ op = "open_session"
    /\ flog[1].rc = -14
    /\ ret = Ret(PyNone)


(* C15: get_error_summary returns the summary string the library wrote     *)
(* when the reported size is positive and "No errors found." when it is    *)
(* zero or less; either way the status code is stripped and the caller     *)
(* gets only the string.                                                   *)
C15_ErrorSummaryString ==
    Done /\ op = "get_error_summary" =>
        LET size == flog[1].out[1].n IN
        /\ flog[1].fn = "WGFMU_getErrorSummarySize"
        /\ ret.kind = "return"
        /\ ret.val.t = "str"
        /\ size > 0 =>
            /\ Len(flog) = 2
            /\ flog[2].fn = "WGFMU_getErrorSummary"
            /\ ret.val = flog[2].out[1]
        /\ size <= 0 =>
            /\ Len(flog) = 1
            /\ ret.val = PyStr("No errors found.")

C15_Witness ==
    /\ Done
    /\ op = "get_error_summary"
    /\ flog[1].rc = -1
    /\ flog[1].out[1].n = 1
    /\ ret = Ret(PyStr("-10: pattern not found"))


(* C16: a one-element tuple (s,) with integer status s >= 0 is unwrapped   *)
(* to the empty tuple, while the bare integer s is unwrapped to None: the  *)
(* two status-only shapes give different values.                           *)
C16_StatusOnlyTupleToEmptyTuple ==
    \A k \in Applied("strip_error_code") :
        LET v == wlog[k].inp.val
            out == wlog[k].out
        IN  IsTuple(v) /\ Len(v.e) = 1 /\ IsInt(v.e[1]) /\ v.e[1].n >= 0 =>
            /\ out = Ret(PyTuple(<<>>))
            /\ strip_error_code_wrapper(Ret(v.e[1])) = Ret(PyNone)
            /\ out # strip_error_code_wrapper(Ret(v.e[1]))

C16_Witness ==
    /\ Done
    /\ op = "successful_function"
    /\ arg = PyTuple(<<PyInt(0)>>)
    /\ ret = Ret(PyTuple(<<>>))


(* C17: check_error is idempotent: a function wrapped with check_error     *)
(* twice ends, for every raw result, with the outcome the inner wrapper    *)
(* alone produced: the same returned value, or the same exception with the *)
(* same code and message.                                                  *)
C17_CheckErrorIdempotent ==
    Done /\ op = "twice_checked_function" =>
        /\ Len(wlog) = 2
        /\ wlog[1].dec = "check_error" /\ wlog[2].dec = "check_error"
        /\ wlog[1].inp = Ret(arg)
        /\ wlog[2].inp = wlog[1].out
        /\ ret = wlog[2].out
        /\ ret = wlog[1].out

C17_Witness ==
    /\ Done
    /\ op = "twice_checked_function"
    /\ arg = PyTuple(<<PyInt(-1), PyStr("x")>>)
    /\ Len(wlog) = 2
    /\ IsWGFMUError(ret, -1)
    /\ ret.message = ERROR_MESSAGES(-1)


IsPointRead(e) == e.fn = "WGFMU_getMeasureValue"
IsVoltageRead(e) == e.fn = "WGFMU_getInterpolatedForceValue"
PointReads == SelectSeq(flog, IsPointRead)
VoltageReads == SelectSeq(flog, IsVoltageRead)

(* C18: get_voltage_data reads one interpolated voltage per time point of  *)
(* get_measurement_data, in the order of the time points, and returns them *)
(* as one array, which both wrappers pass unchanged; a voltage read with a *)
(* negative status code is the last foreign call of the invocation, which  *)
(* ends in WGFMUError with that code.                                      *)
C18_VoltagePerTimePoint ==
    op = "get_voltage_data" =>
        /\ \A k \in DOMAIN flog :
            IsVoltageRead(flog[k]) /\ flog[k].rc < 0 => k = Len(flog)
        /\ \A j \in DOMAIN VoltageReads :
            /\ j <= Len(PointReads)
            /\ VoltageReads[j].idx = PointReads[j].out[1].n
        /\ Done /\ VoltageReads # <<>> /\ flog[Len(flog)].rc < 0 =>
            IsWGFMUError(ret, flog[Len(flog)].rc)
        /\ Done /\ ret.kind = "return" =>
            /\ Len(VoltageReads) = Len(PointReads)
            /\ ret.val = PyArray([j \in DOMAIN VoltageReads |-> VoltageReads[j].out[1]])
            /\ wlog[Len(wlog) - 1] =
                   [dec |-> "check_error", inp |-> ret, out |-> ret]
            /\ wlog[Len(wlog)] =
                   [dec |-> "strip_error_code", inp |-> ret, out |-> ret]

C18_Witness ==
    /\ Done
    /\ op = "get_voltage_data"
    /\ Len(VoltageReads) = 2
    /\ VoltageReads[1].idx = 2 /\ VoltageReads[2].idx = 1
    /\ VoltageReads[1].rc = 10002
    /\ ret = Ret(PyArray(<<PyFloat(4), PyFloat(3)>>))

====
